---- MODULE Spec2Model ----
(***************************************************************************)
(* A model of analyser.py (jjeancarlos/datINMET): the ingestion of a       *)
(* yearly INMET bundle (read_metadata, columns_renamer, convert_dates,     *)
(* convert_hours, fix_data_hora, read_data, read_zipfile), the download of *)
(* the bundle (download_zip_for_year) and the module-level flow that       *)
(* selects a year, downloads, reads and averages by region and month.      *)
(*                                                                         *)
(* Text is modelled as a sequence of characters, each a string, so that    *)
(* the regular expressions and the parsers of the source are computed      *)
(* character by character.  A letter with a diacritic is one character,    *)
(* written as the letter and the mark: "c," (c cedilla), "a~", "a'", "e'", *)
(* "i'", and "C,", "A~", "A'", "E'", "I'" for the capitals.  A character   *)
(* of latin-1 that a string of the module cannot hold is written by its    *)
(* name: "VT" (0x0b), "FS", "GS", "RS", "US" (0x1c to 0x1f), "NEL" (0x85)  *)
(* and "NBSP" (0xa0).                                                      *)
(***************************************************************************)
EXTENDS Integers, Sequences, FiniteSets, TLC

VARIABLES
    fn_arg,         \* the argument of the function under study (pure-function specifications)
    fn_ret,         \* its return value, <<>> before the call
    pc,             \* the position of the module-level flow (lines 288-344)
    selected_year,  \* line 289
    disk,           \* what data/{year}.zip is on the disk
    zip_path,       \* line 296: "None" or the path of the archive to read
    z,              \* read_zipfile: the ZipFile of line 166
    files,          \* read_zipfile: the eligible entries (line 167)
    k,              \* read_zipfile: how many eligible entries the loop has processed
    data,           \* read_zipfile: the unified DataFrame built so far (line 165)
    outcome,        \* what the run printed last and how it ended
    report          \* media_regional_mensal (line 329), <<>> before it is computed

vars == <<fn_arg, fn_ret, pc, selected_year, disk, zip_path, z, files, k, data, outcome, report>>

(***************************************************************************)
(* Characters and text                                                     *)
(***************************************************************************)

\* The decimal digits: what \d and [0-9] match in latin-1 text.
DigitChars == <<"0", "1", "2", "3", "4", "5", "6", "7", "8", "9">>

IsDigit(c) == \E n \in 1..10 : DigitChars[n] = c

DigitVal(c) == (CHOOSE n \in 1..10 : DigitChars[n] = c) - 1

AllDigits(s, a, b) == \A n \in a..b : n <= Len(s) /\ IsDigit(s[n])

RECURSIVE ToNat(_)
\* The value of a run of digits.
ToNat(s) == IF s = <<>> THEN 0 ELSE 10 * ToNat(SubSeq(s, 1, Len(s) - 1)) + DigitVal(s[Len(s)])

\* str.replace(old, new) for one-character old and new.
Replace(s, old, new) == [n \in 1..Len(s) |-> IF s[n] = old THEN new ELSE s[n]]

\* Python's "$": the end of the string, or just before a newline that ends it.
AtDollar(s, n) == n = Len(s) + 1 \/ (n = Len(s) /\ s[n] = "\n")

\* Whether s holds the text t at position n.
HasAt(s, n, t) == n + Len(t) - 1 <= Len(s) /\ SubSeq(s, n, n + Len(t) - 1) = t

\* The capitals, each with its small letter.
LowerOf ==
    ("A" :> "a") @@ ("B" :> "b") @@ ("C" :> "c") @@ ("D" :> "d") @@ ("E" :> "e") @@ ("F" :> "f") @@ ("G" :> "g") @@ ("H" :> "h") @@ ("I" :> "i") @@ ("J" :> "j") @@ ("K" :> "k") @@ ("L" :> "l") @@ ("M" :> "m")
        @@ ("N" :> "n") @@ ("O" :> "o") @@ ("P" :> "p") @@ ("Q" :> "q") @@ ("R" :> "r") @@ ("S" :> "s") @@ ("T" :> "t") @@ ("U" :> "u") @@ ("V" :> "v") @@ ("W" :> "w") @@ ("X" :> "x") @@ ("Y" :> "y") @@ ("Z" :> "z")
        @@ ("C," :> "c,") @@ ("A~" :> "a~") @@ ("A'" :> "a'") @@ ("E'" :> "e'") @@ ("I'" :> "i'")

\* str.lower() of one character.
LowerChar(c) == IF c \in DOMAIN LowerOf THEN LowerOf[c] ELSE c

\* str.lower()
LowerText(s) == [n \in 1..Len(s) |-> LowerChar(s[n])]

RECURSIVE NatText(_)
\* str(n) of a natural number, as in f"{old_col}.{cur_count}".
NatText(n) == IF n < 10 THEN <<DigitChars[n + 1]>> ELSE NatText(n \div 10) \o <<DigitChars[(n % 10) + 1]>>

(***************************************************************************)
(* convert_hours (lines 111-121)                                           *)
(***************************************************************************)

\* re.match(r"^\d{2}\:\d{2}$", hour)
MatchHHcMM(hour) == AllDigits(hour, 1, 2) /\ HasAt(hour, 3, <<":">>) /\ AllDigits(hour, 4, 5) /\ AtDollar(hour, 6)

\* re.match(r"^\d{4}$", hour)
MatchHHMM(hour) == AllDigits(hour, 1, 4) /\ AtDollar(hour, 5)

\* re.match(r"^\d{2} UTC$", hour)
MatchHHUTC(hour) == AllDigits(hour, 1, 2) /\ HasAt(hour, 3, <<" ", "U", "T", "C">>) /\ AtDollar(hour, 7)

\* re.match(r"^\d{2}", hour)
MatchHH(hour) == AllDigits(hour, 1, 2)

fix_hour_string(hour) ==
    IF MatchHHcMM(hour) THEN hour
    ELSE IF MatchHHMM(hour) THEN SubSeq(hour, 1, 2) \o <<":">> \o SubSeq(hour, 3, Len(hour))
    ELSE IF MatchHHUTC(hour) THEN SubSeq(hour, 1, 2) \o <<":", "0", "0">>
    ELSE IF MatchHH(hour) THEN SubSeq(hour, 1, 2) \o <<":", "0", "0">>
    ELSE <<"0", "0", ":", "0", "0">>

\* convert_dates (lines 107-109): dates.str.replace("/", "-")
convert_dates(date) == Replace(date, "/", "-")

(***************************************************************************)
(* Numbers and timestamps                                                  *)
(***************************************************************************)

\* How many decimal places a number of the model keeps: a float value x is the
\* integer x * Scale, and decimal places past FracDigits are cut.  The numeric
\* texts of the model have at most one decimal place, so every value is exact.
FracDigits == 1

RECURSIVE Pow10(_)
Pow10(n) == IF n = 0 THEN 1 ELSE 10 * Pow10(n - 1)

Scale == Pow10(FracDigits)

\* A float: NaN, or a defined value.
NaN == [def |-> FALSE, v |-> 0]

Num(x) == [def |-> TRUE, v |-> x]

\* The text after an optional sign is digits, digits "." digits, digits "." or "." digits.
UnsignedFloatShape(s) ==
    \E p \in 0..Len(s) :
        /\ AllDigits(s, 1, p)
        /\ \/ p = Len(s) /\ p >= 1
           \/ /\ p < Len(s)
              /\ s[p + 1] = "."
              /\ AllDigits(s, p + 2, Len(s))
              /\ (p >= 1 \/ Len(s) >= p + 2)

UnsignedFloatValue(s) ==
    LET p == CHOOSE q \in 0..Len(s) : AllDigits(s, 1, q) /\ (q = Len(s) \/ s[q + 1] = ".")
        end  == IF Len(s) > p + 1 + FracDigits THEN p + 1 + FracDigits ELSE Len(s)
        frac == SubSeq(s, p + 2, end)
    IN  ToNat(SubSeq(s, 1, p)) * Scale + ToNat(frac) * Pow10(FracDigits - Len(frac))

\* float(text) of Python and pd.to_numeric(text, errors="coerce"), on text made of
\* digits, ".", "-" and "x" (no blank, no sign "+", no exponent, no "nan" or "inf"):
\* the value, or NaN where float() raises ValueError and to_numeric coerces.
ParseFloat(s) ==
    LET neg  == Len(s) >= 1 /\ s[1] = "-"
        body == IF neg THEN SubSeq(s, 2, Len(s)) ELSE s
    IN  IF UnsignedFloatShape(body)
        THEN Num(IF neg THEN 0 - UnsignedFloatValue(body) ELSE UnsignedFloatValue(body))
        ELSE NaN

\* A timestamp at minute precision; NaT is pandas' missing timestamp.
NaT == [Y |-> 0, M |-> 0, D |-> 0, h |-> 0, m |-> 0]

IsLeap(y) == (y % 4 = 0 /\ y % 100 # 0) \/ y % 400 = 0

DaysInMonth(y, mo) ==
    IF mo = 2 THEN (IF IsLeap(y) THEN 29 ELSE 28)
    ELSE IF mo \in {4, 6, 9, 11} THEN 30 ELSE 31

ValidDate(y, mo, d) == y >= 1 /\ mo \in 1..12 /\ d >= 1 /\ d <= DaysInMonth(y, mo)

\* Lexicographic order of two timestamps.
TsLeq(a, b) ==
    LET x == <<a.Y, a.M, a.D, a.h, a.m>>
        y == <<b.Y, b.M, b.D, b.h, b.m>>
    IN  x = y \/ \E n \in 1..5 : x[n] < y[n] /\ \A j \in 1..(n - 1) : x[j] = y[j]

\* The whole minutes a datetime64[ns] holds: pd.Timestamp.min is 1677-09-21 00:12:43.1,
\* pd.Timestamp.max is 2262-04-11 23:47:16.8.
InNsRange(ts) ==
    /\ TsLeq([Y |-> 1677, M |-> 9, D |-> 21, h |-> 0, m |-> 13], ts)
    /\ TsLeq(ts, [Y |-> 2262, M |-> 4, D |-> 11, h |-> 23, m |-> 47])

\* What \s of a regular expression on str matches among the characters of
\* latin-1: the six of ASCII, the four separators 0x1c to 0x1f, the next-line
\* character 0x85 and the no-break space 0xa0.
WhitespaceChars == {" ", "\t", "\n", "VT", "\f", "\r", "FS", "GS", "RS", "US", "NEL", "NBSP"}

\* The ways the fields of a text may lie when it is matched against the regular
\* expression pandas makes of format="%Y-%m-%d %H:%M":
\*   (\d\d\d\d)-(1[0-2]|0[1-9]|[1-9])-(3[0-1]|[1-2]\d|0[1-9]|[1-9]| [1-9])\s+
\*   (2[0-3]|[0-1]\d|\d):([0-5]\d|\d)
\* A month, a day, an hour and a minute have one digit or two, and the day may be
\* a blank and one digit.
FieldSplits == [mol : 1..2, blank : 0..1, dl : 1..2, hl : 1..2, mil : 1..2]

\* Whether the regular expression matches the whole of the text t with its fields
\* as p says; the blank of the format stands for any run of whitespace, here the
\* characters between the day and the hour.
SplitMatches(t, p) ==
    LET d == 7 + p.mol + p.blank
        h == Len(t) - p.mil - p.hl
    IN  /\ AllDigits(t, 1, 4) /\ HasAt(t, 5, <<"-">>)
        /\ AllDigits(t, 6, 5 + p.mol) /\ HasAt(t, 6 + p.mol, <<"-">>)
        /\ ToNat(SubSeq(t, 6, 5 + p.mol)) \in 1..12
        /\ p.blank = 1 => (HasAt(t, d - 1, <<" ">>) /\ p.dl = 1)
        /\ AllDigits(t, d, d + p.dl - 1)
        /\ ToNat(SubSeq(t, d, d + p.dl - 1)) \in 1..31
        /\ h > d + p.dl
        /\ \A n \in (d + p.dl)..(h - 1) : t[n] \in WhitespaceChars
        /\ AllDigits(t, h, h + p.hl - 1) /\ t[h + p.hl] = ":"
        /\ ToNat(SubSeq(t, h, h + p.hl - 1)) \in 0..23
        /\ AllDigits(t, Len(t) - p.mil + 1, Len(t))
        /\ ToNat(SubSeq(t, Len(t) - p.mil + 1, Len(t))) \in 0..59

\* The year, month, day, hour and minute of the text t with its fields as p says.
SplitFields(t, p) ==
    [Y |-> ToNat(SubSeq(t, 1, 4)), M |-> ToNat(SubSeq(t, 6, 5 + p.mol)),
     D |-> ToNat(SubSeq(t, 7 + p.mol + p.blank, 6 + p.mol + p.blank + p.dl)),
     h |-> ToNat(SubSeq(t, Len(t) - p.mil - p.hl, Len(t) - p.mil - 1)),
     m |-> ToNat(SubSeq(t, Len(t) - p.mil + 1, Len(t)))]

\* What the regular expression reads from a text: no more than one timestamp,
\* since every field ends before a character that is no digit.
TimestampMatches(text) ==
    UNION {{SplitFields(t, p) : p \in {q \in FieldSplits : SplitMatches(t, q)}} : t \in {text}}

\* Whether text has the layout of format="%Y-%m-%d %H:%M".
TimestampShape(text) == TimestampMatches(text) # {}

TimestampFields(text) == CHOOSE ts \in TimestampMatches(text) : TRUE

\* Whether pd.to_datetime(text, format="%Y-%m-%d %H:%M") returns (it raises
\* otherwise): the text matches, the month has the day, and the timestamp is one
\* a datetime64[ns] holds.
TimestampParses(text) ==
    \E ts \in TimestampMatches(text) : ValidDate(ts.Y, ts.M, ts.D) /\ InNsRange(ts)

(***************************************************************************)
(* columns_renamer (lines 83-105)                                          *)
(***************************************************************************)

\* The rules of columns_renamer in the order of the source: the pattern of each
\* re.match, position by position the set of characters it takes there (one
\* character for a literal, the characters of the class for "[...]"), and the name
\* the rule returns.
RenameRules ==
    << [pattern |-> <<{"d"}, {"a"}, {"t"}, {"a"}>>,
        canon |-> <<"d", "a", "t", "a">>],
       [pattern |-> <<{"h"}, {"o"}, {"r"}, {"a"}>>,
        canon |-> <<"h", "o", "r", "a">>],
       [pattern |-> <<{"p"}, {"r"}, {"e"}, {"c"}, {"i"}, {"p"}, {"i"}, {"t"}, {"a"}, {"c,", "c"}, {"a~", "a"}, {"o"}>>,
        canon |-> <<"p", "r", "e", "c", "i", "p", "i", "t", "a", "c", "a", "o">>],
       [pattern |-> <<{"p"}, {"r"}, {"e"}, {"s"}, {"s"}, {"a~", "a"}, {"o"}, {" "}, {"a"}, {"t"}, {"m"}, {"o"}, {"s"}, {"f"}, {"e'", "e"}, {"r"}, {"i"}, {"c"}, {"a"}, {" "}, {"a"}, {"o"}, {" "}, {"n"}, {"i'", "i"}, {"v"}, {"e"}, {"l"}>>,
        canon |-> <<"p", "r", "e", "s", "s", "a", "o", "_", "a", "t", "m", "o", "s", "f", "e", "r", "i", "c", "a">>],
       [pattern |-> <<{"p"}, {"r"}, {"e"}, {"s"}, {"s"}, {"a~", "a"}, {"o"}, {" "}, {"a"}, {"t"}, {"m"}, {"o"}, {"s"}, {"f"}, {"e'", "e"}, {"r"}, {"i"}, {"c"}, {"a"}, {" "}, {"m"}, {"a'", "a"}, {"x"}>>,
        canon |-> <<"p", "r", "e", "s", "s", "a", "o", "_", "a", "t", "m", "o", "s", "f", "e", "r", "i", "c", "a", "_", "m", "a", "x", "i", "m", "a">>],
       [pattern |-> <<{"p"}, {"r"}, {"e"}, {"s"}, {"s"}, {"a~", "a"}, {"o"}, {" "}, {"a"}, {"t"}, {"m"}, {"o"}, {"s"}, {"f"}, {"e'", "e"}, {"r"}, {"i"}, {"c"}, {"a"}, {" "}, {"m"}, {"i'", "i"}, {"n"}>>,
        canon |-> <<"p", "r", "e", "s", "s", "a", "o", "_", "a", "t", "m", "o", "s", "f", "e", "r", "i", "c", "a", "_", "m", "i", "n", "i", "m", "a">>],
       [pattern |-> <<{"r"}, {"a"}, {"d"}, {"i"}, {"a"}, {"c,", "c"}, {"a~", "a"}, {"o"}>>,
        canon |-> <<"r", "a", "d", "i", "a", "c", "a", "o">>],
       [pattern |-> <<{"t"}, {"e"}, {"m"}, {"p"}, {"e"}, {"r"}, {"a"}, {"t"}, {"u"}, {"r"}, {"a"}, {" "}, {"d"}, {"o"}, {" "}, {"a"}, {"r"}>>,
        canon |-> <<"t", "e", "m", "p", "e", "r", "a", "t", "u", "r", "a", "_", "a", "r">>],
       [pattern |-> <<{"t"}, {"e"}, {"m"}, {"p"}, {"e"}, {"r"}, {"a"}, {"t"}, {"u"}, {"r"}, {"a"}, {" "}, {"d"}, {"o"}, {" "}, {"p"}, {"o"}, {"n"}, {"t"}, {"o"}, {" "}, {"d"}, {"e"}, {" "}, {"o"}, {"r"}, {"v"}, {"a"}, {"l"}, {"h"}, {"o"}>>,
        canon |-> <<"t", "e", "m", "p", "e", "r", "a", "t", "u", "r", "a", "_", "o", "r", "v", "a", "l", "h", "o">>],
       [pattern |-> <<{"t"}, {"e"}, {"m"}, {"p"}, {"e"}, {"r"}, {"a"}, {"t"}, {"u"}, {"r"}, {"a"}, {" "}, {"m"}, {"a'", "a"}, {"x"}>>,
        canon |-> <<"t", "e", "m", "p", "e", "r", "a", "t", "u", "r", "a", "_", "m", "a", "x", "i", "m", "a">>],
       [pattern |-> <<{"t"}, {"e"}, {"m"}, {"p"}, {"e"}, {"r"}, {"a"}, {"t"}, {"u"}, {"r"}, {"a"}, {" "}, {"m"}, {"i'", "i"}, {"n"}>>,
        canon |-> <<"t", "e", "m", "p", "e", "r", "a", "t", "u", "r", "a", "_", "m", "i", "n", "i", "m", "a">>],
       [pattern |-> <<{"t"}, {"e"}, {"m"}, {"p"}, {"e"}, {"r"}, {"a"}, {"t"}, {"u"}, {"r"}, {"a"}, {" "}, {"o"}, {"r"}, {"v"}, {"a"}, {"l"}, {"h"}, {"o"}, {" "}, {"m"}, {"a'", "a"}, {"x"}>>,
        canon |-> <<"t", "e", "m", "p", "e", "r", "a", "t", "u", "r", "a", "_", "o", "r", "v", "a", "l", "h", "o", "_", "m", "a", "x", "i", "m", "a">>],
       [pattern |-> <<{"t"}, {"e"}, {"m"}, {"p"}, {"e"}, {"r"}, {"a"}, {"t"}, {"u"}, {"r"}, {"a"}, {" "}, {"o"}, {"r"}, {"v"}, {"a"}, {"l"}, {"h"}, {"o"}, {" "}, {"m"}, {"i'", "i"}, {"n"}>>,
        canon |-> <<"t", "e", "m", "p", "e", "r", "a", "t", "u", "r", "a", "_", "o", "r", "v", "a", "l", "h", "o", "_", "m", "i", "n", "i", "m", "a">>],
       [pattern |-> <<{"u"}, {"m"}, {"i"}, {"d"}, {"a"}, {"d"}, {"e"}, {" "}, {"r"}, {"e"}, {"l"}, {"."}, {" "}, {"m"}, {"a'", "a"}, {"x"}>>,
        canon |-> <<"u", "m", "i", "d", "a", "d", "e", "_", "r", "e", "l", "a", "t", "i", "v", "a", "_", "m", "a", "x", "i", "m", "a">>],
       [pattern |-> <<{"u"}, {"m"}, {"i"}, {"d"}, {"a"}, {"d"}, {"e"}, {" "}, {"r"}, {"e"}, {"l"}, {"."}, {" "}, {"m"}, {"i'", "i"}, {"n"}>>,
        canon |-> <<"u", "m", "i", "d", "a", "d", "e", "_", "r", "e", "l", "a", "t", "i", "v", "a", "_", "m", "i", "n", "i", "m", "a">>],
       [pattern |-> <<{"u"}, {"m"}, {"i"}, {"d"}, {"a"}, {"d"}, {"e"}, {" "}, {"r"}, {"e"}, {"l"}, {"a"}, {"t"}, {"i"}, {"v"}, {"a"}, {" "}, {"d"}, {"o"}, {" "}, {"a"}, {"r"}>>,
        canon |-> <<"u", "m", "i", "d", "a", "d", "e", "_", "r", "e", "l", "a", "t", "i", "v", "a">>],
       [pattern |-> <<{"v"}, {"e"}, {"n"}, {"t"}, {"o"}, {","}, {" "}, {"d"}, {"i"}, {"r"}, {"e"}, {"c,", "c"}, {"a~", "a"}, {"o"}>>,
        canon |-> <<"v", "e", "n", "t", "o", "_", "d", "i", "r", "e", "c", "a", "o">>],
       [pattern |-> <<{"v"}, {"e"}, {"n"}, {"t"}, {"o"}, {","}, {" "}, {"r"}, {"a"}, {"j"}, {"a"}, {"d"}, {"a"}>>,
        canon |-> <<"v", "e", "n", "t", "o", "_", "r", "a", "j", "a", "d", "a">>],
       [pattern |-> <<{"v"}, {"e"}, {"n"}, {"t"}, {"o"}, {","}, {" "}, {"v"}, {"e"}, {"l"}, {"o"}, {"c"}, {"i"}, {"d"}, {"a"}, {"d"}, {"e"}>>,
        canon |-> <<"v", "e", "n", "t", "o", "_", "v", "e", "l", "o", "c", "i", "d", "a", "d", "e">>] >>

\* re.match(pattern, name): the pattern matches a prefix of the name.
ReMatch(pattern, name) ==
    Len(name) >= Len(pattern) /\ \A n \in 1..Len(pattern) : name[n] \in pattern[n]

\* The first rule whose pattern matches the lower-cased name decides; a name no
\* rule matches is returned lower-cased.
columns_renamer(name) ==
    LET low  == LowerText(name)
        hits == {n \in 1..Len(RenameRules) : ReMatch(RenameRules[n].pattern, low)}
    IN  IF hits = {} THEN low
        ELSE RenameRules[CHOOSE n \in hits : \A j \in hits : n <= j].canon

(***************************************************************************)
(* read_data (lines 133-162) and fix_data_hora (lines 123-131)             *)
(*                                                                         *)
(* A file body is [header: the labels of line 9, rows: the data rows, each *)
(* the texts of its cells].  The name of a column is a text.               *)
(***************************************************************************)

\* The 17 canonical numeric columns, in the order of numeric_cols (lines 140-147).
numeric_cols ==
    <<<<"p", "r", "e", "c", "i", "p", "i", "t", "a", "c", "a", "o">>,
      <<"p", "r", "e", "s", "s", "a", "o", "_", "a", "t", "m", "o", "s", "f", "e", "r", "i", "c", "a">>,
      <<"p", "r", "e", "s", "s", "a", "o", "_", "a", "t", "m", "o", "s", "f", "e", "r", "i", "c", "a", "_", "m", "a", "x", "i", "m", "a">>,
      <<"p", "r", "e", "s", "s", "a", "o", "_", "a", "t", "m", "o", "s", "f", "e", "r", "i", "c", "a", "_", "m", "i", "n", "i", "m", "a">>,
      <<"r", "a", "d", "i", "a", "c", "a", "o">>,
      <<"t", "e", "m", "p", "e", "r", "a", "t", "u", "r", "a", "_", "a", "r">>,
      <<"t", "e", "m", "p", "e", "r", "a", "t", "u", "r", "a", "_", "o", "r", "v", "a", "l", "h", "o">>,
      <<"t", "e", "m", "p", "e", "r", "a", "t", "u", "r", "a", "_", "m", "a", "x", "i", "m", "a">>,
      <<"t", "e", "m", "p", "e", "r", "a", "t", "u", "r", "a", "_", "m", "i", "n", "i", "m", "a">>,
      <<"t", "e", "m", "p", "e", "r", "a", "t", "u", "r", "a", "_", "o", "r", "v", "a", "l", "h", "o", "_", "m", "a", "x", "i", "m", "a">>,
      <<"t", "e", "m", "p", "e", "r", "a", "t", "u", "r", "a", "_", "o", "r", "v", "a", "l", "h", "o", "_", "m", "i", "n", "i", "m", "a">>,
      <<"u", "m", "i", "d", "a", "d", "e", "_", "r", "e", "l", "a", "t", "i", "v", "a", "_", "m", "a", "x", "i", "m", "a">>,
      <<"u", "m", "i", "d", "a", "d", "e", "_", "r", "e", "l", "a", "t", "i", "v", "a", "_", "m", "i", "n", "i", "m", "a">>,
      <<"u", "m", "i", "d", "a", "d", "e", "_", "r", "e", "l", "a", "t", "i", "v", "a">>,
      <<"v", "e", "n", "t", "o", "_", "d", "i", "r", "e", "c", "a", "o">>,
      <<"v", "e", "n", "t", "o", "_", "r", "a", "j", "a", "d", "a">>,
      <<"v", "e", "n", "t", "o", "_", "v", "e", "l", "o", "c", "i", "d", "a", "d", "e">>>>

NumericCols == {numeric_cols[n] : n \in 1..Len(numeric_cols)}

\* The names of the date, time and timestamp columns.
DataCol == <<"d", "a", "t", "a">>

HoraCol == <<"h", "o", "r", "a">>

DataHoraCol == <<"d", "a", "t", "a", "_", "h", "o", "r", "a">>

\* usecols=range(19): read_csv raises when line 9 has fewer columns (pandas 2).
UseCols == 19

\* The cell texts read_csv reads as missing: the empty cell, na_values (line 135),
\* "-9999.0" (read_csv adds, to a value of na_values that is a whole number, its
\* spelling with ".0") and the texts of pandas' own list, which keep_default_na
\* leaves in force.
NaTexts ==
    { <<>>, <<"-", "9", "9", "9", "9">>, <<"-", "9", "9", "9", "9", ",", "0">>,
      <<"-", "9", "9", "9", "9", ".", "0">>,
      <<"#", "N", "/", "A">>,
      <<"#", "N", "/", "A", " ", "N", "/", "A">>,
      <<"#", "N", "A">>,
      <<"-", "1", ".", "#", "I", "N", "D">>,
      <<"-", "1", ".", "#", "Q", "N", "A", "N">>,
      <<"-", "N", "a", "N">>,
      <<"-", "n", "a", "n">>,
      <<"1", ".", "#", "I", "N", "D">>,
      <<"1", ".", "#", "Q", "N", "A", "N">>,
      <<"<", "N", "A", ">">>,
      <<"N", "/", "A">>,
      <<"N", "A">>,
      <<"N", "U", "L", "L">>,
      <<"N", "a", "N">>,
      <<"N", "o", "n", "e">>,
      <<"n", "/", "a">>,
      <<"n", "a", "n">>,
      <<"n", "u", "l", "l">> }

\* The text of cell j of a row; a row shorter than the header is padded with
\* missing cells.
CellText(row, j) == IF j <= Len(row) THEN row[j] ELSE <<>>

IsNaCell(row, j) == CellText(row, j) \in NaTexts

\* pd.to_numeric(d[col].str.replace(',', '.'), errors='coerce') of one cell (line 153)
NumericCell(row, j) == IF IsNaCell(row, j) THEN NaN ELSE ParseFloat(Replace(CellText(row, j), ",", "."))

\* str(hour) of line 114: a missing cell is the float nan.
StrOfCell(row, j) == IF IsNaCell(row, j) THEN <<"n", "a", "n">> ELSE CellText(row, j)

\* The text line 126 hands to pd.to_datetime for one row.
DataHoraText(row, jd, jh) == convert_dates(CellText(row, jd)) \o <<" ">> \o fix_hour_string(StrOfCell(row, jh))

RECURSIVE ThisHeaderUpTo(_, _)
ThisHeaderUpTo(labels, n) ==
    IF n = 0 THEN <<>>
    ELSE Append(ThisHeaderUpTo(labels, n - 1),
                IF labels[n] = <<>> THEN <<"U", "n", "n", "a", "m", "e", "d", ":", " ">> \o NatText(n - 1) ELSE labels[n])

\* read_csv, the header row: a label that is empty is named after its position,
\* counted from 0.
ThisHeader(labels) == ThisHeaderUpTo(labels, Len(labels))

\* A sequence with the element of one position replaced.
SetAt(seq, i, v) == SubSeq(seq, 1, i - 1) \o <<v>> \o SubSeq(seq, i + 1, Len(seq))

\* read_csv, the order in which the names are made unique: the labels that were
\* given, then the ones that were empty.
ColLoopOrder(labels) ==
    LET positions == [j \in 1..Len(labels) |-> j]
    IN  SelectSeq(positions, LAMBDA j : labels[j] # <<>>) \o SelectSeq(positions, LAMBDA j : labels[j] = <<>>)

\* How many times read_csv has given out a name so far.
CountOf(counts, name) == IF name \in DOMAIN counts THEN counts[name] ELSE 0

SetCount(counts, name, v) == [x \in DOMAIN counts \cup {name} |-> IF x = name THEN v ELSE counts[x]]

RECURSIVE MangleName(_, _, _, _, _)
\* read_csv, a name that was given out before: "X" becomes "X.1", "X.2", ..., the
\* first of them that is neither in the header nor given out.
MangleName(old_col, col, cur_count, counts, header) ==
    IF cur_count = 0 THEN [col |-> col, counts |-> counts]
    ELSE LET counted == SetCount(counts, old_col, cur_count + 1)
             next    == old_col \o <<".">> \o NatText(cur_count)
         IN  IF \E j \in 1..Len(header) : header[j] = next
             THEN MangleName(old_col, next, cur_count + 1, counted, header)
             ELSE MangleName(old_col, next, CountOf(counted, next), counted, header)

RECURSIVE DedupNames(_, _, _, _)
\* read_csv, the names of the columns of line 9 made unique, one position of
\* the order after the other.
DedupNames(order, n, header, counts) ==
    IF n > Len(order) THEN header
    ELSE LET i == order[n]
             r == MangleName(header[i], header[i], CountOf(counts, header[i]), counts, header)
         IN  DedupNames(order, n + 1, SetAt(header, i, r.col), SetCount(r.counts, r.col, 1))

\* The names read_csv gives the columns it keeps (lines 134-137): the first
\* UseCols of line 9, made unique.
ReadCsvColumns(labels) ==
    SubSeq(DedupNames(ColLoopOrder(labels), 1, ThisHeader(labels), <<>>), 1, UseCols)

RECURSIVE RenameUpTo(_, _)
\* d.rename(columns=columns_renamer) on the first n names (line 138).
RenameUpTo(names, n) ==
    IF n = 0 THEN <<>> ELSE Append(RenameUpTo(names, n - 1), columns_renamer(names[n]))

\* The renamed names of the columns read_csv keeps (lines 134-138).
RenamedCols(body) == RenameUpTo(ReadCsvColumns(body.header), UseCols)

\* The positions of the columns called name.
ColsNamed(cols, name) == {j \in 1..Len(cols) : cols[j] = name}

\* What read_data returns: an exception, or a frame.
Raised == [raise |-> TRUE, columns |-> {}, rows |-> <<>>]

\* pd.DataFrame()
EmptyFrame == [raise |-> FALSE, columns |-> {}, rows |-> <<>>]

\* lines 155-157: the rows that are not null in every canonical column present;
\* every row when the header has no canonical column.
RowsKept(body, cols, present) ==
    LET AllNull(row) == \A c \in present : ~NumericCell(row, CHOOSE j \in ColsNamed(cols, c) : TRUE).def
    IN  IF body.rows # <<>> /\ present # {}
        THEN SelectSeq(body.rows, LAMBDA row : ~AllNull(row))
        ELSE body.rows

\* fix_data_hora: the timestamp of one row whose text parses; a missing date
\* gives NaT.
DataHora(row, jd, jh) ==
    IF IsNaCell(row, jd) THEN NaT ELSE TimestampFields(DataHoraText(row, jd, jh))

\* Whether pd.to_datetime of line 125 raises on one row.
DataHoraRaises(row, jd, jh) == ~IsNaCell(row, jd) /\ ~TimestampParses(DataHoraText(row, jd, jh))

read_data(body) ==
    IF Len(body.header) < UseCols THEN Raised
    ELSE
    LET cols    == RenamedCols(body)
        present == {c \in NumericCols : ColsNamed(cols, c) # {}}
        kept    == present \cup {c \in {DataCol, HoraCol} : ColsNamed(cols, c) # {}}
        rows    == RowsKept(body, cols, present)
    IN  \* a canonical name two columns share: d[col] is a frame, .str raises (line 153)
        IF \E c \in present : Cardinality(ColsNamed(cols, c)) > 1 THEN Raised
        \* lines 159-160
        ELSE IF rows = <<>> \/ kept = {} THEN EmptyFrame
        \* fix_data_hora: d["data"] or d["hora"] is missing or is a frame
        ELSE IF Cardinality(ColsNamed(cols, DataCol)) # 1 \/ Cardinality(ColsNamed(cols, HoraCol)) # 1 THEN Raised
        ELSE
        LET jd == CHOOSE j \in ColsNamed(cols, DataCol) : TRUE
            jh == CHOOSE j \in ColsNamed(cols, HoraCol) : TRUE
        IN  IF \E n \in 1..Len(rows) : DataHoraRaises(rows[n], jd, jh) THEN Raised
            ELSE [raise   |-> FALSE,
                  columns |-> present \cup {DataHoraCol},
                  rows    |-> [n \in 1..Len(rows) |->
                                 [data_hora |-> DataHora(rows[n], jd, jh),
                                  val |-> [c \in present |->
                                             NumericCell(rows[n], CHOOSE j \in ColsNamed(cols, c) : TRUE)]]]]

(***************************************************************************)
(* read_metadata (lines 32-81)                                             *)
(*                                                                         *)
(* A file header is the sequence of the rows csv.reader yields for the     *)
(* first lines of the file, each row the sequence of its fields.           *)
(***************************************************************************)

\* re.match("[0-9]{4}-[0-9]{2}-[0-9]{2}", data_fundacao): a prefix of the text
MatchIsoDate(s) ==
    AllDigits(s, 1, 4) /\ HasAt(s, 5, <<"-">>) /\ AllDigits(s, 6, 7) /\ HasAt(s, 8, <<"-">>) /\ AllDigits(s, 9, 10)

\* re.match("[0-9]{2}/[0-9]{2}/[0-9]{2}", data_fundacao): a prefix of the text
MatchBrDate(s) ==
    AllDigits(s, 1, 2) /\ HasAt(s, 3, <<"/">>) /\ AllDigits(s, 4, 5) /\ HasAt(s, 6, <<"/">>) /\ AllDigits(s, 7, 8)

IsoDateFields(s) == [Y |-> ToNat(SubSeq(s, 1, 4)), M |-> ToNat(SubSeq(s, 6, 7)), D |-> ToNat(SubSeq(s, 9, 10))]

\* %y: 00-68 are 2000-2068, 69-99 are 1969-1999.
BrDateFields(s) ==
    LET yy == ToNat(SubSeq(s, 7, 8))
    IN  [Y |-> IF yy < 69 THEN 2000 + yy ELSE 1900 + yy, M |-> ToNat(SubSeq(s, 4, 5)), D |-> ToNat(SubSeq(s, 1, 2))]

\* dt.datetime.strptime(s, "%Y-%m-%d") of a text MatchIsoDate accepts: it raises
\* ValueError on text after the date and on a date the calendar does not have.
StrptimeIsoRaises(s) == Len(s) # 10 \/ ~ValidDate(IsoDateFields(s).Y, IsoDateFields(s).M, IsoDateFields(s).D)

\* dt.datetime.strptime(s, "%d/%m/%y") of a text MatchBrDate accepts.
StrptimeBrRaises(s) == Len(s) # 8 \/ ~ValidDate(BrDateFields(s).Y, BrDateFields(s).M, BrDateFields(s).D)

\* lines 62-65: the founding date is a datetime when a pattern matches and
\* strptime returns, and is left as the text when no pattern matches.
FoundingRaises(s) ==
    IF MatchIsoDate(s) THEN StrptimeIsoRaises(s)
    ELSE IF MatchBrDate(s) THEN StrptimeBrRaises(s)
    ELSE FALSE

NoDate == [Y |-> 0, M |-> 0, D |-> 0]

FoundingValue(s) ==
    IF MatchIsoDate(s) THEN [parsed |-> TRUE, date |-> IsoDateFields(s), text |-> <<>>]
    ELSE IF MatchBrDate(s) THEN [parsed |-> TRUE, date |-> BrDateFields(s), text |-> <<>>]
    ELSE [parsed |-> FALSE, date |-> NoDate, text |-> s]

\* lines 48, 53, 58: float(value.replace(",", ".")), nan when it raises.
Coordinate(s) == ParseFloat(Replace(s, ",", "."))

HeaderLines == 8

\* The {} of line 69.
NoMeta ==
    [ok |-> FALSE, regiao |-> <<>>, uf |-> <<>>, estacao |-> <<>>, codigo_wmo |-> <<>>,
     latitude |-> NaN, longitude |-> NaN, altitude |-> NaN,
     data_fundacao |-> [parsed |-> FALSE, date |-> NoDate, text |-> <<>>]]

\* "_, x = next(reader)" raises StopIteration when the lines are over and ValueError
\* when the row does not have exactly two fields.
UnpackRaises(header) == Len(header) < HeaderLines \/ \E n \in 1..HeaderLines : Len(header[n]) # 2

read_metadata(header) ==
    IF UnpackRaises(header) THEN NoMeta
    ELSE IF FoundingRaises(header[8][2]) THEN NoMeta
    ELSE [ok |-> TRUE,
          regiao |-> header[1][2], uf |-> header[2][2], estacao |-> header[3][2],
          codigo_wmo |-> header[4][2],
          latitude |-> Coordinate(header[5][2]),
          longitude |-> Coordinate(header[6][2]),
          altitude |-> Coordinate(header[7][2]),
          data_fundacao |-> FoundingValue(header[8][2])]

(***************************************************************************)
(* read_zipfile (lines 164-187)                                            *)
(*                                                                         *)
(* A bundle is the sequence of the entries of the archive, in the order of *)
(* its directory.  An entry is [filename, is_dir, fault, header, body]:    *)
(* fault is where reading the entry from the archive fails: "none",        *)
(* "open" (z.open raises: a compression method zipfile does not have, an   *)
(* encrypted entry), "header" (the compressed bytes are damaged and the    *)
(* read of the first lines fails) or "body" (the read fails after the      *)
(* first lines).  A DataFrame is [columns, rows]; a row is [meta,          *)
(* data_hora, val], val the numeric columns of the file the row comes from *)
(* (a column the file lacks is NaN in the concatenation).                  *)
(***************************************************************************)

EndsWith(s, t) == Len(s) >= Len(t) /\ SubSeq(s, Len(s) - Len(t) + 1, Len(s)) = t

\* lines 168-170
Eligible(zf) ==
    /\ ~zf.is_dir
    /\ EndsWith(LowerText(zf.filename), <<".", "c", "s", "v">>)
    /\ ~HasAt(zf.filename, 1, <<"_", "_", "M", "A", "C", "O", "S", "X">>)

\* lines 167-170: the eligible entries, in the order of z.infolist()
EligibleFiles(filelist) == SelectSeq(filelist, Eligible)

\* The columns d.assign(**meta) adds (line 183).
MetaCols ==
    {<<"r", "e", "g", "i", "a", "o">>,
     <<"u", "f">>,
     <<"e", "s", "t", "a", "c", "a", "o">>,
     <<"c", "o", "d", "i", "g", "o", "_", "w", "m", "o">>,
     <<"l", "a", "t", "i", "t", "u", "d", "e">>,
     <<"l", "o", "n", "g", "i", "t", "u", "d", "e">>,
     <<"a", "l", "t", "i", "t", "u", "d", "e">>,
     <<"d", "a", "t", "a", "_", "f", "u", "n", "d", "a", "c", "a", "o">>}

\* pd.DataFrame() of line 165
NoData == [columns |-> {}, rows |-> <<>>]

\* zipfile.ZipFile(filepath) (line 166) of an archive that opens: filelist is what
\* z.infolist() returns, and NameToInfo is the entry of each name; of the entries
\* of one name it is the one the directory lists last.
ZipFile(bundle) ==
    [filelist   |-> bundle,
     NameToInfo |-> [name \in {bundle[n].filename : n \in 1..Len(bundle)} |->
                       bundle[CHOOSE n \in 1..Len(bundle) :
                                 /\ bundle[n].filename = name
                                 /\ \A j \in (n + 1)..Len(bundle) : bundle[j].filename # name]]]

\* z before line 166.
NoZip == ZipFile(<<>>)

\* z.open(zf.filename) (lines 178 and 181): the entry is looked up by its name.
OpenedEntry(zip, zf) == zip.NameToInfo[zf.filename]

\* line 178: read_metadata on the entry opened; a read that fails on the first
\* lines is caught at line 66 and gives {}.
EntryMeta(zip, zf) ==
    LET f == OpenedEntry(zip, zf) IN IF f.fault = "header" THEN NoMeta ELSE read_metadata(f.header)

\* line 181: read_data on the entry opened; a read that fails leaves read_csv as
\* an exception.
EntryData(zip, zf) ==
    LET f == OpenedEntry(zip, zf) IN IF f.fault = "body" THEN Raised ELSE read_data(f.body)

\* lines 178-183 for one entry: the frame to append, empty when the entry is
\* skipped (the header read returned {}, the frame is empty) or raised (the
\* exception is caught at line 185).
EntryFrame(zip, zf) ==
    IF OpenedEntry(zip, zf).fault = "open" THEN NoData
    ELSE
    LET meta == EntryMeta(zip, zf)
        d    == EntryData(zip, zf)
    IN  IF ~meta.ok THEN NoData
        ELSE IF d.raise \/ d.rows = <<>> THEN NoData
        ELSE [columns |-> d.columns \cup MetaCols,
              rows |-> [n \in 1..Len(d.rows) |->
                          [meta |-> meta, data_hora |-> d.rows[n].data_hora, val |-> d.rows[n].val]]]

\* Whether the body of the try of lines 177-184 raises for the entry.
EntryRaises(zip, zf) == OpenedEntry(zip, zf).fault = "open" \/ (EntryMeta(zip, zf).ok /\ EntryData(zip, zf).raise)

\* line 184: pd.concat((data, d), ignore_index=True); an entry that is skipped or
\* raises leaves data as it is.
Concat(df, d) ==
    IF d.rows = <<>> THEN df
    ELSE [columns |-> df.columns \cup d.columns, rows |-> df.rows \o d.rows]

\* The for loop of line 176: after an entry, raised or not, the next one is taken.
AfterEntry(zf, done, total) == done + 1

\* The value of a column in a row of a DataFrame.
Field(row, col) == IF col \in DOMAIN row.val THEN row.val[col] ELSE NaN

\* df_empty as it would be if the test of line 317 were left out.
df_empty_never(df) == FALSE

\* DataFrame.empty
df_empty(df) == df.rows = <<>> \/ df.columns = {}

(***************************************************************************)
(* The monthly regional means (lines 326-334)                              *)
(***************************************************************************)

\* The characters of the region names, in code point order: Python compares
\* strings code point by code point.
CodeOrder == <<" ", "-", "0", "1", "2", "3", "4", "5", "6", "7", "8", "9", "A", "B", "C", "D", "E", "F", "G", "H", "I", "J", "K", "L", "M", "N", "O", "P", "Q", "R", "S", "T", "U", "V", "W", "X", "Y", "Z", "_", "a", "b", "c", "d", "e", "f", "g", "h", "i", "j", "k", "l", "m", "n", "o", "p", "q", "r", "s", "t", "u", "v", "w", "x", "y", "z">>

Rank(c) == CHOOSE n \in 1..Len(CodeOrder) : CodeOrder[n] = c

\* a < b for two texts
TextLess(a, b) ==
    \E n \in 1..(Len(a) + 1) :
        /\ n <= Len(b)
        /\ \A j \in 1..(n - 1) : a[j] = b[j]
        /\ (n = Len(a) + 1 \/ Rank(a[n]) < Rank(b[n]))

\* KeyLeq as it would be with by=['mes_num']: the entries are sorted by month alone.
KeyLeq_month_only(x, y) == x[2] <= y[2]

\* sort_values(by=['regiao', 'mes_num']) (line 334): the order of two group keys
KeyLeq(x, y) == TextLess(x[1], y[1]) \/ (x[1] = y[1] /\ x[2] <= y[2])

RECURSIVE SortKeys(_)
SortKeys(S) ==
    IF S = {} THEN <<>>
    ELSE LET least == CHOOSE x \in S : \A y \in S : KeyLeq(x, y)
         IN  <<least>> \o SortKeys(S \ {least})

\* line 326: mes_num is NaN where data_hora is NaT, and groupby drops the rows
\* whose key is NaN.
HasMonth(row) == row.data_hora # NaT

\* lines 329-331: the keys of the groups.  mes_nome is a function of mes_num, so
\* grouping by it as well splits no group.
GroupKeys(df) == {<<df.rows[n].meta.regiao, df.rows[n].data_hora.M>> : n \in {j \in 1..Len(df.rows) : HasMonth(df.rows[j])}}

GroupRows(df, key) ==
    SelectSeq(df.rows, LAMBDA row : HasMonth(row) /\ row.meta.regiao = key[1] /\ row.data_hora.M = key[2])

RECURSIVE SumDefined(_, _)
SumDefined(rows, col) ==
    IF rows = <<>> THEN 0
    ELSE (IF Field(Head(rows), col).def THEN Field(Head(rows), col).v ELSE 0) + SumDefined(Tail(rows), col)

CountDefined(rows, col) == Cardinality({n \in 1..Len(rows) : Field(rows[n], col).def})

\* The 'mean' of lines 332-333: the sum of the values that are not NaN over their
\* count, kept as the pair; NaN (def is FALSE) when every value is NaN.
Mean(rows, col) ==
    [def |-> CountDefined(rows, col) > 0, sum |-> SumDefined(rows, col), n |-> CountDefined(rows, col)]

\* The columns .agg names (lines 332-333).
TemperaturaAr == <<"t", "e", "m", "p", "e", "r", "a", "t", "u", "r", "a", "_", "a", "r">>

UmidadeRelativa == <<"u", "m", "i", "d", "a", "d", "e", "_", "r", "e", "l", "a", "t", "i", "v", "a">>

\* Whether .agg raises KeyError: a column it names is in no file of the bundle.
AggRaises(df) == TemperaturaAr \notin df.columns \/ UmidadeRelativa \notin df.columns

\* lines 329-334
media_regional_mensal(df) ==
    LET keys == SortKeys(GroupKeys(df))
    IN  [n \in 1..Len(keys) |->
           [regiao |-> keys[n][1], mes_num |-> keys[n][2],
            temperatura_media |-> Mean(GroupRows(df, keys[n]), TemperaturaAr),
            umidade_media |-> Mean(GroupRows(df, keys[n]), UmidadeRelativa)]]

(***************************************************************************)
(* The station files and the bundles the runs are checked on               *)
(***************************************************************************)

\* The 8 header lines of a station file, as csv.reader splits them.
HeaderOf(regiao, uf, estacao, wmo, lat, lon, alt, fund) ==
    << <<<<"R", "E", "G", "I", "A", "O", ":">>, regiao>>, <<<<"U", "F", ":">>, uf>>, <<<<"E", "S", "T", "A", "C", "A", "O", ":">>, estacao>>,
       <<<<"C", "O", "D", "I", "G", "O", " ", "(", "W", "M", "O", ")", ":">>, wmo>>, <<<<"L", "A", "T", "I", "T", "U", "D", "E", ":">>, lat>>, <<<<"L", "O", "N", "G", "I", "T", "U", "D", "E", ":">>, lon>>,
       <<<<"A", "L", "T", "I", "T", "U", "D", "E", ":">>, alt>>, <<<<"D", "A", "T", "A", " ", "D", "E", " ", "F", "U", "N", "D", "A", "C", "A", "O", ":">>, fund>> >>

\* Line 9 of the files of 2019 and later.
HeaderNew ==
    <<<<"D", "a", "t", "a">>,
      <<"H", "o", "r", "a", " ", "U", "T", "C">>,
      <<"P", "R", "E", "C", "I", "P", "I", "T", "A", "C", "A", "O", " ", "T", "O", "T", "A", "L", ",", " ", "H", "O", "R", "A", "R", "I", "O", " ", "(", "m", "m", ")">>,
      <<"P", "R", "E", "S", "S", "A", "O", " ", "A", "T", "M", "O", "S", "F", "E", "R", "I", "C", "A", " ", "A", "O", " ", "N", "I", "V", "E", "L", " ", "D", "A", " ", "E", "S", "T", "A", "C", "A", "O", ",", " ", "H", "O", "R", "A", "R", "I", "A", " ", "(", "m", "B", ")">>,
      <<"P", "R", "E", "S", "S", "A", "O", " ", "A", "T", "M", "O", "S", "F", "E", "R", "I", "C", "A", " ", "M", "A", "X", ".", "N", "A", " ", "H", "O", "R", "A", " ", "A", "N", "T", ".", " ", "(", "A", "U", "T", ")", " ", "(", "m", "B", ")">>,
      <<"P", "R", "E", "S", "S", "A", "O", " ", "A", "T", "M", "O", "S", "F", "E", "R", "I", "C", "A", " ", "M", "I", "N", ".", " ", "N", "A", " ", "H", "O", "R", "A", " ", "A", "N", "T", ".", " ", "(", "A", "U", "T", ")", " ", "(", "m", "B", ")">>,
      <<"R", "A", "D", "I", "A", "C", "A", "O", " ", "G", "L", "O", "B", "A", "L", " ", "(", "K", "j", "/", "m", "2", ")">>,
      <<"T", "E", "M", "P", "E", "R", "A", "T", "U", "R", "A", " ", "D", "O", " ", "A", "R", " ", "-", " ", "B", "U", "L", "B", "O", " ", "S", "E", "C", "O", ",", " ", "H", "O", "R", "A", "R", "I", "A", " ", "(", "C", ")">>,
      <<"T", "E", "M", "P", "E", "R", "A", "T", "U", "R", "A", " ", "D", "O", " ", "P", "O", "N", "T", "O", " ", "D", "E", " ", "O", "R", "V", "A", "L", "H", "O", " ", "(", "C", ")">>,
      <<"T", "E", "M", "P", "E", "R", "A", "T", "U", "R", "A", " ", "M", "A", "X", "I", "M", "A", " ", "N", "A", " ", "H", "O", "R", "A", " ", "A", "N", "T", ".", " ", "(", "A", "U", "T", ")", " ", "(", "C", ")">>,
      <<"T", "E", "M", "P", "E", "R", "A", "T", "U", "R", "A", " ", "M", "I", "N", "I", "M", "A", " ", "N", "A", " ", "H", "O", "R", "A", " ", "A", "N", "T", ".", " ", "(", "A", "U", "T", ")", " ", "(", "C", ")">>,
      <<"T", "E", "M", "P", "E", "R", "A", "T", "U", "R", "A", " ", "O", "R", "V", "A", "L", "H", "O", " ", "M", "A", "X", ".", " ", "N", "A", " ", "H", "O", "R", "A", " ", "A", "N", "T", ".", " ", "(", "A", "U", "T", ")", " ", "(", "C", ")">>,
      <<"T", "E", "M", "P", "E", "R", "A", "T", "U", "R", "A", " ", "O", "R", "V", "A", "L", "H", "O", " ", "M", "I", "N", ".", " ", "N", "A", " ", "H", "O", "R", "A", " ", "A", "N", "T", ".", " ", "(", "A", "U", "T", ")", " ", "(", "C", ")">>,
      <<"U", "M", "I", "D", "A", "D", "E", " ", "R", "E", "L", ".", " ", "M", "A", "X", ".", " ", "N", "A", " ", "H", "O", "R", "A", " ", "A", "N", "T", ".", " ", "(", "A", "U", "T", ")", " ", "(", "%", ")">>,
      <<"U", "M", "I", "D", "A", "D", "E", " ", "R", "E", "L", ".", " ", "M", "I", "N", ".", " ", "N", "A", " ", "H", "O", "R", "A", " ", "A", "N", "T", ".", " ", "(", "A", "U", "T", ")", " ", "(", "%", ")">>,
      <<"U", "M", "I", "D", "A", "D", "E", " ", "R", "E", "L", "A", "T", "I", "V", "A", " ", "D", "O", " ", "A", "R", ",", " ", "H", "O", "R", "A", "R", "I", "A", " ", "(", "%", ")">>,
      <<"V", "E", "N", "T", "O", ",", " ", "D", "I", "R", "E", "C", "A", "O", " ", "H", "O", "R", "A", "R", "I", "A", " ", "(", "g", "r", ")">>,
      <<"V", "E", "N", "T", "O", ",", " ", "R", "A", "J", "A", "D", "A", " ", "M", "A", "X", "I", "M", "A", " ", "(", "m", "/", "s", ")">>,
      <<"V", "E", "N", "T", "O", ",", " ", "V", "E", "L", "O", "C", "I", "D", "A", "D", "E", " ", "H", "O", "R", "A", "R", "I", "A", " ", "(", "m", "/", "s", ")">>>>

\* Line 9 of the files before 2019, with the diacritics of the INMET labels.
HeaderOld ==
    [HeaderNew EXCEPT ![1] = <<"D", "A", "T", "A", " ", "(", "Y", "Y", "Y", "Y", "-", "M", "M", "-", "D", "D", ")">>, ![2] = <<"H", "O", "R", "A", " ", "(", "U", "T", "C", ")">>,
                      ![3] = <<"P", "R", "E", "C", "I", "P", "I", "T", "A", "C,", "A~", "O", " ", "T", "O", "T", "A", "L", ",", " ", "H", "O", "R", "A'", "R", "I", "O", " ", "(", "m", "m", ")">>,
                      ![5] = <<"P", "R", "E", "S", "S", "A~", "O", " ", "A", "T", "M", "O", "S", "F", "E", "R", "I", "C", "A", " ", "M", "A", "X", ".", "N", "A", " ", "H", "O", "R", "A", " ", "A", "N", "T", ".", " ", "(", "A", "U", "T", ")", " ", "(", "m", "B", ")">>,
                      ![6] = <<"P", "R", "E", "S", "S", "A~", "O", " ", "A", "T", "M", "O", "S", "F", "E", "R", "I", "C", "A", " ", "M", "I", "N", ".", " ", "N", "A", " ", "H", "O", "R", "A", " ", "A", "N", "T", ".", " ", "(", "A", "U", "T", ")", " ", "(", "m", "B", ")">>,
                      ![10] = <<"T", "E", "M", "P", "E", "R", "A", "T", "U", "R", "A", " ", "M", "A'", "X", "I", "M", "A", " ", "N", "A", " ", "H", "O", "R", "A", " ", "A", "N", "T", ".", " ", "(", "A", "U", "T", ")", " ", "(", "C", ")">>,
                      ![11] = <<"T", "E", "M", "P", "E", "R", "A", "T", "U", "R", "A", " ", "M", "I'", "N", "I", "M", "A", " ", "N", "A", " ", "H", "O", "R", "A", " ", "A", "N", "T", ".", " ", "(", "A", "U", "T", ")", " ", "(", "C", ")">>,
                      ![17] = <<"V", "E", "N", "T", "O", ",", " ", "D", "I", "R", "E", "C,", "A~", "O", " ", "H", "O", "R", "A", "R", "I", "A", " ", "(", "g", "r", ")">>]

\* A line 9 without the air temperature and relative humidity labels.
HeaderNoAir == [HeaderNew EXCEPT ![8] = <<"T", "_", "A", "R", " ", "(", "C", ")">>, ![16] = <<"U", "R", " ", "(", "%", ")">>]

\* A line 9 with the date and the time and no label a rule knows: one label
\* 15 times.
HeaderNoCanon ==
    [j \in 1..UseCols |-> IF j = 1 THEN HeaderNew[1] ELSE IF j = 2 THEN HeaderNew[2]
                          ELSE IF j = 8 THEN <<"T", "_", "A", "R", " ", "(", "C", ")">> ELSE IF j = 16 THEN <<"U", "R", " ", "(", "%", ")">> ELSE <<"C", "H", "U", "V", "A", " ", "(", "m", "m", ")">>]

\* A line 9 whose air temperature column alone is canonical.
HeaderAirOnly == [HeaderNoCanon EXCEPT ![8] = HeaderNew[8]]

\* A line 9 without the time column.
HeaderNoHora == [HeaderNew EXCEPT ![2] = <<"U", "T", "C">>]

\* A line 9 with the air temperature label twice.
HeaderRepeated == [HeaderNew EXCEPT ![9] = HeaderNew[8]]

\* A line 9 of five columns.
HeaderNarrow == SubSeq(HeaderNew, 1, 5)

\* A data row in the layout of HeaderNew: the date, the time, the air temperature
\* (column 8), the relative humidity (column 16), and one text for the other cells.
RowOf(date, hora, temp, umid, rest) ==
    [j \in 1..UseCols |-> IF j = 1 THEN date ELSE IF j = 2 THEN hora
                          ELSE IF j = 8 THEN temp ELSE IF j = 16 THEN umid ELSE rest]

Missing == <<"-", "9", "9", "9", "9">>

HeaderNE == HeaderOf(<<"N", "E">>, <<"B", "A">>, <<"S", "A", "L", "V", "A", "D", "O", "R">>, <<"A", "4", "0", "1">>, <<"-", "1", "2", ",", "8">>, <<"-", "3", "8", ",", "5">>, <<"4", "7", ",", "5">>, <<"2", "0", "0", "0", "-", "0", "5", "-", "1", "3">>)

\* A station of region NE: three January rows with air temperature 20.0, 22.0,
\* missing and relative humidity 80.0, missing, 70.0.
StationNE ==
    [filename |-> <<"I", "N", "M", "E", "T", "_", "N", "E", "_", "B", "A", "_", "A", "4", "0", "1", ".", "c", "s", "v">>, is_dir |-> FALSE, fault |-> "none",
     header |-> HeaderNE,
     body |-> [header |-> HeaderNew,
               rows |-> << RowOf(<<"2", "0", "2", "0", "/", "0", "1", "/", "0", "1">>, <<"0", "0", "0", "0", " ", "U", "T", "C">>, <<"2", "0", ",", "0">>, <<"8", "0", ",", "0">>, Missing),
                           RowOf(<<"2", "0", "2", "0", "/", "0", "1", "/", "0", "1">>, <<"0", "1", "0", "0", " ", "U", "T", "C">>, <<"2", "2", ",", "0">>, Missing, Missing),
                           RowOf(<<"2", "0", "2", "0", "/", "0", "1", "/", "0", "2">>, <<"0", "2", "0", "0", " ", "U", "T", "C">>, Missing, <<"7", "0", ",", "0">>, <<"1", ",", "5">>) >>]]

\* A second station of region NE, with an upper-case suffix: a row of March whose
\* month and day have one digit, and a row of January.
StationNE2 ==
    [filename |-> <<"I", "N", "M", "E", "T", "_", "N", "E", "_", "P", "E", "_", "A", "3", "0", "1", ".", "C", "S", "V">>, is_dir |-> FALSE, fault |-> "none",
     header |-> HeaderOf(<<"N", "E">>, <<"P", "E">>, <<"R", "E", "C", "I", "F", "E">>, <<"A", "3", "0", "1">>, <<"-", "8", ",", "0">>, <<"-", "3", "4", ",", "9">>, <<"x">>, <<"1", "3", "/", "0", "5", "/", "0", "0">>),
     body |-> [header |-> HeaderNew,
               rows |-> << RowOf(<<"2", "0", "2", "0", "/", "3", "/", "5">>, <<"1", "3", " ", "U", "T", "C">>, <<"3", "0", ",", "0">>, <<"6", "0", ",", "0">>, Missing),
                           RowOf(<<"2", "0", "2", "0", "/", "0", "1", "/", "3", "1">>, <<"2", "3", "5", "9">>, <<"2", "4", ",", "0">>, <<"9", "0", ",", "0">>, Missing) >>]]

\* A station of region CO in the layout before 2019: a February row, a January row
\* whose date ends with a no-break space and whose air temperature and relative
\* humidity are missing, and a row without date.
StationCO ==
    [filename |-> <<"I", "N", "M", "E", "T", "_", "C", "O", "_", "D", "F", "_", "A", "0", "0", "1", ".", "c", "s", "v">>, is_dir |-> FALSE, fault |-> "none",
     header |-> HeaderOf(<<"C", "O">>, <<"D", "F">>, <<"B", "R", "A", "S", "I", "L", "I", "A">>, <<"A", "0", "0", "1">>, <<"-", "1", "5", ",", "7">>, <<"-", "4", "7", ",", "9">>, <<"1", "1", "6", "0", ",", "9">>, <<"s", "e", "m", " ", "d", "a", "t", "a">>),
     body |-> [header |-> HeaderOld,
               rows |-> << RowOf(<<"2", "0", "1", "8", "-", "0", "2", "-", "0", "1">>, <<"1", "2", ":", "0", "0">>, <<"1", "0", ",", "0">>, <<"5", "0", ",", "0">>, Missing),
                           RowOf(<<"2", "0", "1", "8", "-", "0", "1", "-", "1", "5", "NBSP">>, <<"1", "2", ":", "3", "0">>, Missing, Missing, <<"0", ",", "5">>),
                           RowOf(<<>>, <<"1", "3", ":", "0", "0">>, <<"1", "2", ",", "0">>, Missing, Missing) >>]]

\* A file whose header stops after 7 lines; its body is the one of StationNE.
StationShortHeader ==
    [StationNE EXCEPT !.filename = <<"s", "h", "o", "r", "t", ".", "c", "s", "v">>, !.header = SubSeq(HeaderNE, 1, 7)]

\* A file whose second row has a date the calendar does not have.
StationBadRow ==
    [filename |-> <<"I", "N", "M", "E", "T", "_", "N", "_", "A", "M", "_", "A", "1", "0", "1", ".", "c", "s", "v">>, is_dir |-> FALSE, fault |-> "none",
     header |-> HeaderOf(<<"N">>, <<"A", "M">>, <<"M", "A", "N", "A", "U", "S">>, <<"A", "1", "0", "1">>, <<"-", "3", ",", "1">>, <<"-", "6", "0", ",", "0">>, <<"6", "1", ",", "3">>, <<"2", "0", "0", "0", "-", "0", "5", "-", "1", "3">>),
     body |-> [header |-> HeaderNew,
               rows |-> << RowOf(<<"2", "0", "2", "0", "/", "0", "2", "/", "2", "8">>, <<"0", "0", "0", "0", " ", "U", "T", "C">>, <<"2", "5", ",", "0">>, <<"8", "5", ",", "0">>, Missing),
                           RowOf(<<"2", "0", "2", "0", "/", "0", "2", "/", "3", "0">>, <<"0", "1", "0", "0", " ", "U", "T", "C">>, <<"2", "6", ",", "0">>, <<"8", "6", ",", "0">>, Missing) >>]]

\* A file whose rows hold the missing-value sentinels only, in their three spellings.
StationAllMissing ==
    [StationBadRow EXCEPT !.filename = <<"m", "i", "s", "s", "i", "n", "g", ".", "c", "s", "v">>,
       !.body = [header |-> HeaderNew,
                 rows |-> << RowOf(<<"2", "0", "2", "0", "/", "0", "4", "/", "0", "1">>, <<"0", "0", "0", "0", " ", "U", "T", "C">>, Missing, <<"-", "9", "9", "9", "9", ",", "0">>, <<"-", "9", "9", "9", "9", ".", "0">>) >>]]

\* A station of region S whose line 9 has neither the air temperature nor the
\* relative humidity label.
StationNoAir ==
    [filename |-> <<"I", "N", "M", "E", "T", "_", "S", "_", "R", "S", "_", "A", "8", "0", "1", ".", "c", "s", "v">>, is_dir |-> FALSE, fault |-> "none",
     header |-> HeaderOf(<<"S">>, <<"R", "S">>, <<"P", "O", "R", "T", "O", " ", "A", "L", "E", "G", "R", "E">>, <<"A", "8", "0", "1">>, <<"-", "3", "0", ",", "0">>, <<"-", "5", "1", ",", "1">>, <<"4", "1", ",", "2">>, <<"2", "0", "0", "0", "-", "0", "9", "-", "2", "2">>),
     body |-> [header |-> HeaderNoAir,
               rows |-> << RowOf(<<"2", "0", "2", "0", "/", "0", "1", "/", "1", "0">>, <<"0", "0", "0", "0", " ", "U", "T", "C">>, <<"1", "8", ",", "0">>, <<"7", "7", ",", "0">>, <<"1", ",", "5">>) >>]]

\* A second entry under the name of StationNE: the file of another station.
StationNEAgain == [StationNE2 EXCEPT !.filename = StationNE.filename]

\* Entries that cannot be read from the archive: one that z.open refuses, one
\* whose first lines cannot be read, one whose read fails after them.
StationNoOpen == [StationNE EXCEPT !.filename = <<"e", "n", "c", ".", "c", "s", "v">>, !.fault = "open"]

StationBadCrc == [StationNE EXCEPT !.filename = <<"c", "r", "c", ".", "c", "s", "v">>, !.fault = "header"]

StationCutBody == [StationNE EXCEPT !.filename = <<"c", "u", "t", ".", "c", "s", "v">>, !.fault = "body"]

\* Entries that are not eligible: a directory, a file of another suffix, and a
\* resource fork under __MACOSX; each holds the data of StationNE.
DirEntry == [StationNE EXCEPT !.filename = <<"d", "i", "r", ".", "c", "s", "v", "/">>, !.is_dir = TRUE]

TextEntry == [StationNE EXCEPT !.filename = <<"R", "E", "A", "D", "M", "E", ".", "t", "x", "t">>]

MacEntry == [StationNE EXCEPT !.filename = <<"_", "_", "M", "A", "C", "O", "S", "X", "/", "a", ".", "c", "s", "v">>]

SampleEntries ==
    {StationNE, StationNE2, StationNEAgain, StationCO, StationShortHeader, StationBadRow, StationAllMissing,
     StationNoAir, StationNoOpen, StationBadCrc, StationCutBody, DirEntry, TextEntry, MacEntry}

\* The most entries a bundle of the model holds.
MaxEntries == 2

Bundles == UNION {[1..n -> SampleEntries] : n \in 0..MaxEntries}

\* A zip archive kept as an entry of the bundle without compression, and the
\* bundle that archive holds.
StoredZip ==
    [filename |-> <<"2", "0", "1", "9", ".", "z", "i", "p">>, is_dir |-> FALSE, fault |-> "none", header |-> <<>>,
     body |-> [header |-> <<>>, rows |-> <<>>]]

StoredBundle == <<StationCO>>

(***************************************************************************)
(* download_zip_for_year (lines 250-284)                                   *)
(*                                                                         *)
(* The file data/{year}.zip is [state, readable, comment, content]: state  *)
(* is "absent", "present" (it was there before the run, or a download of   *)
(* this run wrote it whole) or "partial" (a download of this run failed    *)
(* while writing it); readable is whether zipfile.ZipFile opens it;        *)
(* comment is whether it ends with an archive comment; content is the      *)
(* bundle zipfile.ZipFile lists.                                           *)
(***************************************************************************)

Absent == [state |-> "absent", readable |-> FALSE, comment |-> FALSE, content |-> <<>>]

\* What a server or an earlier run may have put in data/{year}.zip: a zip archive
\* of one of the bundles, a zip archive of at most one entry with a comment at its
\* end, a zip archive that holds another one, or bytes that are no zip archive.
Archives ==
    {[state |-> "present", readable |-> TRUE, comment |-> FALSE, content |-> b] : b \in Bundles}
        \cup {[state |-> "present", readable |-> TRUE, comment |-> TRUE, content |-> b] : b \in {c \in Bundles : Len(c) <= 1}}
        \cup {[state |-> "present", readable |-> TRUE, comment |-> FALSE, content |-> <<StoredZip, StationNE>>]}
        \cup {[state |-> "present", readable |-> FALSE, comment |-> FALSE, content |-> <<>>]}

\* Where the bytes written stop when the writing loop is cut:
\*   "in_entries"        before the central directory of the archive is complete
\*   "in_comment"        inside the comment that follows the central directory
\*   "after_stored_zip"  just after an entry that is itself a zip archive
\*   "after_last_byte"   after the whole archive (iter_content raises once it has
\*                       yielded the last chunk: the stream breaks before its end
\*                       mark, or the body is shorter than Content-Length; or
\*                       pbar.update raises after the last f.write)
Cuts == {"in_entries", "in_comment", "after_stored_zip", "after_last_byte"}

\* A file the writing loop was cut from that zipfile.ZipFile does not open: it
\* has no end-of-central-directory record.
Partial == [state |-> "partial", readable |-> FALSE, comment |-> FALSE, content |-> <<>>]

\* The file the writing loop leaves when it is cut.  zipfile.ZipFile looks for
\* the last end-of-central-directory record of the file and accepts a comment
\* shorter than the record says: a file cut inside the comment opens with every
\* entry, and a file cut after an entry that is a zip archive opens as that
\* archive.  A loop cut after the last byte leaves the archive whole.
PartialFile(served, cut) ==
    IF cut = "after_last_byte" THEN served
    ELSE IF served.readable /\ served.comment /\ cut = "in_comment"
    THEN [state |-> "partial", readable |-> TRUE, comment |-> TRUE, content |-> served.content]
    ELSE IF served.readable /\ cut = "after_stored_zip" /\ \E n \in 1..Len(served.content) : served.content[n] = StoredZip
    THEN [state |-> "partial", readable |-> TRUE, comment |-> FALSE, content |-> StoredBundle]
    ELSE Partial

\* How one call may go, from what requests and the file system do:
\*   "ok"                   every chunk was written (line 276)
\*   "request_before_open"  requests.get or raise_for_status raises RequestException;
\*                          the handler unlinks a file that was there (lines 279-281)
\*   "request_before_open_unlink_fails"  the same, and unlink raises (line 282)
\*   "other_before_open"    int(content-length) or open raises (ValueError, OSError)
\*   "request_in_write"     iter_content raises RequestException, unlink succeeds
\*   "request_unlink_fails" iter_content raises RequestException, unlink raises
\*   "other_in_write"       f.write or pbar.update raises OSError
DownloadOutcomes ==
    {"ok", "request_before_open", "request_before_open_unlink_fails", "other_before_open",
     "request_in_write", "request_unlink_fails", "other_in_write"}

\* The outcomes in which the writing loop is cut and the file stays.
CutOutcomes == {"request_unlink_fails", "other_in_write"}

\* What the call returns: [raised, disk], raised when an exception leaves it.
\* A file that is there is returned as it is unless overwrite is set (line 256);
\* open(local_name, "wb") replaces it.
download_zip_for_year(file, overwrite, how, served, cut) ==
    IF file.state # "absent" /\ ~overwrite THEN [raised |-> FALSE, disk |-> file]
    ELSE CASE how = "ok" -> [raised |-> FALSE, disk |-> served]
           [] how \in {"request_before_open", "request_in_write"} -> [raised |-> TRUE, disk |-> Absent]
           [] how \in {"request_before_open_unlink_fails", "other_before_open"} -> [raised |-> TRUE, disk |-> file]
           [] how \in CutOutcomes -> [raised |-> TRUE, disk |-> PartialFile(served, cut)]

(***************************************************************************)
(* The run (lines 288-344)                                                 *)
(***************************************************************************)

LocalName == "data/2020.zip"

\* What select_from_list does (lines 217-247): it returns None (the text typed is
\* no year of the list, or q was pressed), it returns a year, or input() raises
\* EOFError at the end of the standard input, which nothing catches.
Selections == {"None", "2020", "EOFError"}

\* lines 288-293
SelectYear ==
    /\ pc = "select"
    /\ \E choice \in Selections :
        IF choice = "EOFError"
        THEN selected_year' = selected_year /\ pc' = "exit" /\ outcome' = "eof_error"
        ELSE /\ selected_year' = choice
             /\ IF choice = "None"
                THEN pc' = "exit" /\ outcome' = "no_year"
                ELSE pc' = "download" /\ outcome' = outcome
    /\ UNCHANGED <<fn_arg, fn_ret, disk, zip_path, z, files, k, data, report>>

\* lines 295-309: the download, called without overwrite (line 298), and the
\* fallback to the local file when it raised
Download ==
    /\ pc = "download"
    /\ \E how \in (IF disk.state = "absent" THEN DownloadOutcomes ELSE {"ok"}) :
       \E served \in (IF disk.state = "absent" /\ how \in {"ok"} \cup CutOutcomes THEN Archives ELSE {Absent}) :
       \E cut \in (IF disk.state = "absent" /\ how \in CutOutcomes THEN Cuts ELSE {"in_entries"}) :
        LET r == download_zip_for_year(disk, FALSE, how, served, cut)
        IN  /\ disk' = r.disk
            /\ IF ~r.raised \/ r.disk.state # "absent"
               THEN zip_path' = LocalName /\ pc' = "read" /\ outcome' = outcome
               ELSE zip_path' = "None" /\ pc' = "exit" /\ outcome' = "no_zip"
    /\ UNCHANGED <<fn_arg, fn_ret, selected_year, z, files, k, data, report>>

\* line 316 and lines 165-174: the archive is opened and its entries are listed
OpenZip ==
    /\ pc = "read"
    /\ IF ~disk.readable
       THEN pc' = "exit" /\ outcome' = "bundle_error" /\ UNCHANGED <<z, files>>
       ELSE /\ z' = ZipFile(disk.content)
            /\ files' = EligibleFiles(disk.content)
            /\ IF EligibleFiles(disk.content) # <<>>
               THEN pc' = "loop" /\ outcome' = outcome
               ELSE IF df_empty(NoData)
                    THEN pc' = "exit" /\ outcome' = "empty_result"
                    ELSE pc' = "aggregate" /\ outcome' = outcome
    /\ k' = 0
    /\ data' = NoData
    /\ UNCHANGED <<fn_arg, fn_ret, selected_year, disk, zip_path, report>>

\* lines 176-186: one turn of the loop
ProcessEntry ==
    /\ pc = "loop"
    /\ k < Len(files)
    /\ data' = Concat(data, EntryFrame(z, files[k + 1]))
    /\ k' = AfterEntry(files[k + 1], k, Len(files))
    /\ UNCHANGED <<fn_arg, fn_ret, pc, selected_year, disk, zip_path, z, files, outcome, report>>

\* lines 187 and 317-319: read_zipfile returns and the frame is tested
FinishRead ==
    /\ pc = "loop"
    /\ k = Len(files)
    /\ IF df_empty(data)
       THEN pc' = "exit" /\ outcome' = "empty_result"
       ELSE pc' = "aggregate" /\ outcome' = outcome
    /\ UNCHANGED <<fn_arg, fn_ret, selected_year, disk, zip_path, z, files, k, data, report>>

\* lines 324-344: the means are computed and printed, or .agg raises KeyError
Aggregate ==
    /\ pc = "aggregate"
    /\ pc' = "exit"
    /\ IF AggRaises(data)
       THEN outcome' = "key_error" /\ report' = report
       ELSE outcome' = "reported" /\ report' = media_regional_mensal(data)
    /\ UNCHANGED <<fn_arg, fn_ret, selected_year, disk, zip_path, z, files, k, data>>

\* The disk before the run: no data/2020.zip, or one that an earlier run left.
Init ==
    /\ fn_arg = <<>>
    /\ fn_ret = <<>>
    /\ pc = "select"
    /\ selected_year = "None"
    /\ disk \in {Absent} \cup Archives
    /\ zip_path = "None"
    /\ z = NoZip
    /\ files = <<>>
    /\ k = 0
    /\ data = NoData
    /\ outcome = "running"
    /\ report = <<>>

Next == SelectYear \/ Download \/ OpenZip \/ ProcessEntry \/ FinishRead \/ Aggregate

Spec == Init /\ [][Next]_vars

(***************************************************************************)
(* The functions on their own: one call of convert_hours, of read_metadata *)
(* and of read_data, on every input of a bounded set.                      *)
(***************************************************************************)

RECURSIVE TextsUpTo(_, _)
\* The texts of at most n characters of an alphabet.
TextsUpTo(alphabet, n) ==
    IF n = 0 THEN {<<>>}
    ELSE LET shorter == TextsUpTo(alphabet, n - 1)
         IN  shorter \cup {Append(t, c) : t \in shorter, c \in alphabet}

\* The longest time text built from HourAlphabet.
MaxHourLen == 5

HourAlphabet == {"2", "3", ":", "X", "\n"}

\* The time texts: every text of HourAlphabet, the forms with "UTC" and their
\* near misses, and the texts the specification names.
HourInputs ==
    TextsUpTo(HourAlphabet, MaxHourLen)
        \cup {h \o u : h \in TextsUpTo({"2", "3"}, 2) \cup {<<"0", "0", "0", "0">>},
                       u \in {<<" ", "U", "T", "C">>, <<" ", "U", "T", "C", "\n">>, <<" ", "U", "T", "C", "X">>, <<"U", "T", "C">>, <<" ", "u", "t", "c">>}}
        \cup {<<"2", "3", ":", "5", "9">>, <<"2", "3", "5", "9">>, <<"2", "3", "X">>, <<"g", "a", "r", "b", "a", "g", "e">>, <<"n", "a", "n">>}

HoursInit ==
    /\ fn_arg \in HourInputs
    /\ fn_ret = <<>>
    /\ pc = "convert_hours"
    /\ selected_year = "None" /\ disk = Absent /\ zip_path = "None" /\ z = NoZip /\ files = <<>>
    /\ k = 0 /\ data = NoData /\ outcome = "running" /\ report = <<>>

CallConvertHours ==
    /\ pc = "convert_hours"
    /\ fn_ret' = fix_hour_string(fn_arg)
    /\ pc' = "returned"
    /\ UNCHANGED <<fn_arg, selected_year, disk, zip_path, z, files, k, data, outcome, report>>

SpecHours == HoursInit /\ [][CallConvertHours]_vars

\* The texts of a coordinate and of the altitude.
CoordTexts == {<<"-", "1", "2", ",", "8">>, <<"1", "2", ".", "8">>, <<"4", "7">>, <<",", "5">>, <<"1", ",", "2", ",", "3">>, <<"-">>, <<"x">>, <<>>}

\* The texts of the founding date: the two layouts with years, months and days
\* the calendar has or does not have, with and without text after them, and texts
\* of neither layout.
FoundingTexts ==
    {y \o <<"-">> \o mo \o <<"-">> \o d \o tail :
        y \in {<<"2", "0", "0", "0">>, <<"2", "0", "0", "1">>, <<"0", "0", "0", "0">>}, mo \in {<<"0", "2">>, <<"1", "2">>, <<"1", "3">>, <<"0", "0">>},
        d \in {<<"0", "1">>, <<"2", "9">>, <<"3", "1">>, <<"0", "0">>}, tail \in {<<>>, <<" ", "0", "0", ":", "0", "0">>}}
    \cup {d \o <<"/">> \o mo \o <<"/">> \o y \o tail :
        y \in {<<"0", "0">>, <<"6", "8">>, <<"6", "9">>}, mo \in {<<"0", "2">>, <<"1", "2">>, <<"1", "3">>},
        d \in {<<"0", "1">>, <<"2", "9">>, <<"3", "1">>, <<"0", "0">>}, tail \in {<<>>, <<"2", "0">>}}
    \cup {<<>>, <<"s", "e", "m", " ", "d", "a", "t", "a">>, <<"2", "0", "0", "0", "-", "5", "-", "1", "3">>, <<"1", "3", ".", "0", "5", ".", "2", "0", "0", "0">>}

\* The headers: 8 lines of two fields with every text above, and headers that are
\* cut short or have a line of one or of three fields.
HeaderInputs ==
    LET good == {HeaderOf(<<"N", "E">>, <<"B", "A">>, <<"S", "A", "L", "V", "A", "D", "O", "R">>, <<"A", "4", "0", "1">>, lat, <<"-", "3", "8", ",", "5">>, alt, fund) :
                    lat \in CoordTexts, alt \in {<<"4", "7", ",", "5">>, <<"x">>}, fund \in FoundingTexts}
    IN  good
        \cup {SubSeq(HeaderNE, 1, n) : n \in 0..7}
        \cup {[HeaderNE EXCEPT ![n] = <<<<"U", "F", ":">>>>] : n \in 1..8}
        \cup {[HeaderNE EXCEPT ![n] = <<<<"U", "F", ":">>, <<"B", "A">>, <<>> >>] : n \in 1..8}

MetaInit ==
    /\ fn_arg \in HeaderInputs
    /\ fn_ret = <<>>
    /\ pc = "read_metadata"
    /\ selected_year = "None" /\ disk = Absent /\ zip_path = "None" /\ z = NoZip /\ files = <<>>
    /\ k = 0 /\ data = NoData /\ outcome = "running" /\ report = <<>>

CallReadMetadata ==
    /\ pc = "read_metadata"
    /\ fn_ret' = read_metadata(fn_arg)
    /\ pc' = "returned"
    /\ UNCHANGED <<fn_arg, selected_year, disk, zip_path, z, files, k, data, outcome, report>>

SpecMeta == MetaInit /\ [][CallReadMetadata]_vars

\* The most data rows a file body of the model holds.
MaxRows == 2

DateTexts == {<<"2", "0", "2", "0", "/", "0", "1", "/", "1", "5">>, <<"2", "0", "1", "8", "-", "1", "2", "-", "3">>, <<"1", "5", "/", "0", "1", "/", "2", "0", "2", "0">>, <<"2", "0", "2", "0", "/", "0", "2", "/", "3", "0">>, <<"N", "U", "L", "L">>}

HourTexts == {<<"0", "0", "0", "0", " ", "U", "T", "C">>, <<"2", "5", "0", "0">>}

\* The data rows: every date and time text above, with the air temperature a
\* number, the sentinel or a text that is no number, and the sentinel in its three
\* spellings.
RowInputs ==
    {RowOf(d, h, t, u, r) : d \in DateTexts, h \in HourTexts, t \in {<<"2", "0", ",", "0">>, Missing, <<"x">>},
                            u \in {<<"8", "0", ",", "0">>, <<"-", "9", "9", "9", "9", ",", "0">>}, r \in {<<"-", "9", "9", "9", "9", ".", "0">>, <<"1", ",", "5">>}}

BodyHeaders == {HeaderNew, HeaderOld, HeaderNoAir, HeaderNoCanon, HeaderAirOnly, HeaderNoHora, HeaderRepeated, HeaderNarrow}

BodyInputs ==
    {[header |-> h, rows |-> rows] :
        h \in BodyHeaders, rows \in UNION {[1..n -> RowInputs] : n \in 0..MaxRows}}

DecodeInit ==
    /\ fn_arg \in BodyInputs
    /\ fn_ret = <<>>
    /\ pc = "read_data"
    /\ selected_year = "None" /\ disk = Absent /\ zip_path = "None" /\ z = NoZip /\ files = <<>>
    /\ k = 0 /\ data = NoData /\ outcome = "running" /\ report = <<>>

CallReadData ==
    /\ pc = "read_data"
    /\ fn_ret' = read_data(fn_arg)
    /\ pc' = "returned"
    /\ UNCHANGED <<fn_arg, selected_year, disk, zip_path, z, files, k, data, outcome, report>>

SpecDecode == DecodeInit /\ [][CallReadData]_vars

(***************************************************************************)
(* The claims                                                              *)
(***************************************************************************)

\* read_zipfile has returned its frame to line 316.
ReadReturned == pc = "aggregate" \/ (pc = "exit" /\ outcome \in {"empty_result", "key_error", "reported"})

\* How the decoding of one eligible entry of the archive z ends.
EntryOutcome(zip, zf) ==
    IF OpenedEntry(zip, zf).fault = "open" \/ ~EntryMeta(zip, zf).ok THEN "header_fails"
    ELSE LET d == EntryData(zip, zf)
         IN  IF d.raise THEN "decode_raises"
             ELSE IF d.rows = <<>> THEN "zero_rows"
             ELSE "rows"

\* The rows an entry decodes to from its own header and body, each with the
\* station descriptor of the entry; none when the entry fails or has no row.
OwnRows(zf) == EntryFrame(ZipFile(<<zf>>), zf).rows

RECURSIVE ExpectedRows(_)
\* The rows of the entries of a bundle that are eligible and decode to at least one
\* row, entry after entry in the order of the bundle.
ExpectedRows(bundle) ==
    IF bundle = <<>> THEN <<>>
    ELSE (IF Eligible(Head(bundle)) THEN OwnRows(Head(bundle)) ELSE <<>>) \o ExpectedRows(Tail(bundle))

RECURSIVE RowsRead(_, _)
\* The rows read_zipfile takes from the first n entries of an archive.
RowsRead(zip, n) ==
    IF n = 0 THEN <<>>
    ELSE RowsRead(zip, n - 1)
             \o (IF Eligible(zip.filelist[n]) THEN EntryFrame(zip, zip.filelist[n]).rows ELSE <<>>)

\* C1: when read_zipfile returns, it has processed every eligible entry, and the
\* dataset is exactly the rows of the entries that decoded to at least one row,
\* in the order of the bundle, each row with the descriptor of its own entry; while
\* the loop runs, the dataset is that of the entries processed so far.  An entry
\* that fails removes nothing and stops nothing.
C1_DatasetIsConcatenation ==
    /\ pc = "loop" => data.rows = ExpectedRows(SubSeq(files, 1, k))
    /\ ReadReturned => k = Len(files) /\ data.rows = ExpectedRows(disk.content)

\* Whether a data row has a valid timestamp and a defined canonical field, in a
\* file whose line 9 is HeaderNew or HeaderOld.
GoodRow(row) ==
    /\ ~IsNaCell(row, 1)
    /\ TimestampParses(DataHoraText(row, 1, 2))
    /\ \E j \in 3..UseCols : NumericCell(row, j).def

\* C2: a row whose date and time give no valid timestamp is dropped alone: every
\* other row of the file with a valid timestamp and a defined canonical field is in
\* the unified dataset (of a file that is read without fault and whose header is
\* usable).  The file of an entry is the one read_zipfile opens for it.
C2_BadRowDroppedAlone ==
    ReadReturned =>
        \A n \in 1..Len(files) :
            LET f == OpenedEntry(z, files[n])
            IN  (f.fault = "none" /\ EntryOutcome(z, files[n]) # "header_fails" /\ f.body.header \in {HeaderNew, HeaderOld}) =>
                    \A j \in 1..Len(f.body.rows) :
                        GoodRow(f.body.rows[j]) =>
                            \E m \in 1..Len(data.rows) :
                                /\ data.rows[m].meta = read_metadata(f.header)
                                /\ data.rows[m].data_hora = TimestampFields(DataHoraText(f.body.rows[j], 1, 2))

\* C3: read_data returns no row whose 17 canonical fields are all undefined
\* (absent or null).
C3_NoAllUndefinedRow ==
    (pc = "returned" /\ ~fn_ret.raise) =>
        \A n \in 1..Len(fn_ret.rows) :
            \E c \in NumericCols : c \in DOMAIN fn_ret.rows[n].val /\ fn_ret.rows[n].val[c].def

\* A header of 8 lines of the form label;value.
EightLines(header) == Len(header) = HeaderLines /\ \A n \in 1..HeaderLines : Len(header[n]) = 2

\* Whether a text is exactly a valid YYYY-MM-DD or DD/MM/YY date.
ExactFoundingDate(s) ==
    \/ MatchIsoDate(s) /\ Len(s) = 10 /\ ValidDate(IsoDateFields(s).Y, IsoDateFields(s).M, IsoDateFields(s).D)
    \/ MatchBrDate(s) /\ Len(s) = 8 /\ ValidDate(BrDateFields(s).Y, BrDateFields(s).M, BrDateFields(s).D)

\* C4: for every header of 8 lines label;value, read_metadata returns a usable
\* descriptor; a founding date that is not exactly a valid date of one of the two
\* layouts is undefined in it.
C4_HeaderNeverFailsOnFields ==
    (pc = "returned" /\ EightLines(fn_arg)) =>
        /\ fn_ret.ok
        /\ ~ExactFoundingDate(fn_arg[8][2]) => ~fn_ret.data_fundacao.parsed

\* Whether a text is a valid calendar date in the layout DD/MM/YYYY.
IsDayMonthYear(s) ==
    /\ Len(s) = 10
    /\ AllDigits(s, 1, 2) /\ s[3] = "/" /\ AllDigits(s, 4, 5) /\ s[6] = "/" /\ AllDigits(s, 7, 10)
    /\ ValidDate(ToNat(SubSeq(s, 7, 10)), ToNat(SubSeq(s, 4, 5)), ToNat(SubSeq(s, 1, 2)))

\* Whether convert_hours turns a time text into an hour and a minute of the day.
AcceptedTime(h) ==
    LET t == fix_hour_string(h)
    IN  Len(t) = 5 /\ AllDigits(t, 1, 2) /\ t[3] = ":" /\ AllDigits(t, 4, 5)
            /\ ToNat(SubSeq(t, 1, 2)) <= 23 /\ ToNat(SubSeq(t, 4, 5)) <= 59

\* C5: a row whose date is a valid DD/MM/YYYY date, whose time is in an accepted
\* form and which has a defined canonical field is kept, with that day, month and
\* year.
C5_DayMonthYearAccepted ==
    (pc = "returned" /\ fn_arg.header = HeaderNew) =>
        \A j \in 1..Len(fn_arg.rows) :
            LET row == fn_arg.rows[j]
            IN  (IsDayMonthYear(row[1]) /\ AcceptedTime(row[2]) /\ \E c \in 3..UseCols : NumericCell(row, c).def) =>
                    /\ ~fn_ret.raise
                    /\ \E n \in 1..Len(fn_ret.rows) :
                        /\ fn_ret.rows[n].data_hora.D = ToNat(SubSeq(row[1], 1, 2))
                        /\ fn_ret.rows[n].data_hora.M = ToNat(SubSeq(row[1], 4, 5))
                        /\ fn_ret.rows[n].data_hora.Y = ToNat(SubSeq(row[1], 7, 10))

\* The whole text is HH:MM.
IsHourMinute(h) == Len(h) = 5 /\ AllDigits(h, 1, 2) /\ h[3] = ":" /\ AllDigits(h, 4, 5)

\* The ordered chain of C6: HH:MM, HHMM, "HH UTC", two leading digits, anything else.
ChainResult(h) ==
    IF IsHourMinute(h) THEN h
    ELSE IF Len(h) = 4 /\ AllDigits(h, 1, 4) THEN <<h[1], h[2], ":", h[3], h[4]>>
    ELSE IF Len(h) = 6 /\ AllDigits(h, 1, 2) /\ SubSeq(h, 3, 6) = <<" ", "U", "T", "C">> THEN <<h[1], h[2], ":", "0", "0">>
    ELSE IF AllDigits(h, 1, 2) THEN <<h[1], h[2], ":", "0", "0">>
    ELSE <<"0", "0", ":", "0", "0">>

\* C6: convert_hours maps every time text by the first matching rule of the chain,
\* and the result always has the shape of two digits, a colon and two digits.
C6_HourChain ==
    pc = "returned" => fn_ret = ChainResult(fn_arg) /\ IsHourMinute(fn_ret)

\* The rows of a frame of one region and one month.
RowsOf(df, regiao, mes) ==
    SelectSeq(df.rows, LAMBDA row : row.data_hora # NaT /\ row.meta.regiao = regiao /\ row.data_hora.M = mes)

\* The defined values of a column in rows, as a bag: value -> how many times.
DefinedAt(rows, col) == {n \in 1..Len(rows) : col \in DOMAIN rows[n].val /\ rows[n].val[col].def}

RECURSIVE SumAt(_, _, _)
SumAt(rows, col, S) ==
    IF S = {} THEN 0
    ELSE LET n == CHOOSE j \in S : TRUE IN rows[n].val[col].v + SumAt(rows, col, S \ {n})

\* Whether a reported mean is the sum of the defined values over their count, and
\* undefined when no value is defined.
MeanIsRight(mean, rows, col) ==
    LET S == DefinedAt(rows, col)
    IN  IF S = {} THEN ~mean.def
        ELSE mean.def /\ mean.sum * Cardinality(S) = SumAt(rows, col, S) * mean.n

\* C7: once the dataset is read and not empty, the run reports, for every (region,
\* month) group, the mean of the defined air temperatures and of the defined
\* relative humidities of the rows of the group, undefined when the group has no
\* defined value, and never ends in an error; the group (NE, 1) of the bundle that
\* holds StationNE alone has the means 21.0 and 75.0.
C7_GroupMeans ==
    (pc = "exit" /\ outcome \in {"key_error", "reported"}) =>
        /\ outcome = "reported"
        /\ \A n \in 1..Len(report) :
            /\ MeanIsRight(report[n].temperatura_media, RowsOf(data, report[n].regiao, report[n].mes_num), TemperaturaAr)
            /\ MeanIsRight(report[n].umidade_media, RowsOf(data, report[n].regiao, report[n].mes_num), UmidadeRelativa)
        /\ disk.content = <<StationNE>> =>
            /\ Len(report) = 1 /\ report[1].regiao = <<"N", "E">> /\ report[1].mes_num = 1
            /\ report[1].temperatura_media.sum = 21 * Scale * report[1].temperatura_media.n
            /\ report[1].umidade_media.sum = 75 * Scale * report[1].umidade_media.n

\* C8: the means are computed only on a dataset that has rows; a readable bundle
\* with no eligible entry, or none of whose rows survives, ends the run in the
\* empty-result outcome, which is never the outcome of a bundle that cannot be
\* opened.
C8_EmptyResultBeforeAggregation ==
    /\ (pc = "aggregate" \/ outcome \in {"key_error", "reported"}) => data.rows # <<>>
    /\ (pc = "exit" /\ zip_path # "None" /\ disk.readable /\ RowsRead(ZipFile(disk.content), Len(disk.content)) = <<>>) =>
           outcome = "empty_result"
    /\ (pc = "exit" /\ zip_path # "None" /\ ~disk.readable) => outcome = "bundle_error"
    /\ outcome = "empty_result" => disk.readable /\ data.rows = <<>> /\ report = <<>>

\* C8's case: the run ended in the empty-result outcome on a bundle whose eligible
\* entries all failed or decoded to no row.
C8_Witness == pc = "exit" /\ outcome = "empty_result" /\ Len(files) = 2 /\ k = 2

\* C9: the report has one entry for every (region, month) pair that has a row, and
\* no other; its months are in 1..12; its entries are in the order of the regions
\* and, in a region, of strictly ascending months.
C9_ReportEntries ==
    outcome = "reported" =>
        /\ {<<report[n].regiao, report[n].mes_num>> : n \in 1..Len(report)}
               = {<<data.rows[n].meta.regiao, data.rows[n].data_hora.M>> :
                      n \in {j \in 1..Len(data.rows) : data.rows[j].data_hora # NaT}}
        /\ \A n \in 1..Len(report) : report[n].mes_num \in 1..12
        /\ \A i, j \in 1..Len(report) :
            i < j => \/ TextLess(report[i].regiao, report[j].regiao)
                     \/ report[i].regiao = report[j].regiao /\ report[i].mes_num < report[j].mes_num

\* C9's case: a report of two regions, one of them with two months.
C9_Witness ==
    /\ outcome = "reported"
    /\ Len(report) >= 3
    /\ report[1].regiao # report[Len(report)].regiao
    /\ \E n \in 1..(Len(report) - 1) : report[n].regiao = report[n + 1].regiao

\* C10: the archive the run reads is never one that a failed download of this run
\* left partially written.
C10_NoPartialArchiveRead == ~(zip_path = LocalName /\ disk.state = "partial")

====
